---- MODULE Spec2Model ----
(***************************************************************************)
(* Model of chatbot_ui.py: the class AgenticProposalRH (settings read from *)
(* the environment, one agent and one session registered on the Llama      *)
(* Stack service, questions relayed as turns and the answers yielded as    *)
(* accumulated fragments) together with the part of the remote service the *)
(* class talks to (the agents, sessions and turn requests it has seen).    *)
(*                                                                         *)
(* Scope.  gradio.ChatInterface runs fn with its default concurrency of    *)
(* one, so one make_questions generator is consumed at a time; its body    *)
(* is split at its statements, and create_agent may run wherever the       *)
(* generator is not inside a next().  The service answers a turn request   *)
(* with any stream of up to MaxStreamLen records; error payloads are       *)
(* mappings, as the service sends them.  Exceptions raised by the          *)
(* transport itself and the lines written to the log are left out: no      *)
(* attribute of the object and no request depends on them.                 *)
(*                                                                         *)
(* Text that is parsed (the numeric environment variables) is a sequence   *)
(* of one-character strings; text that is only compared or concatenated    *)
(* (STREAM, questions, output texts) is a TLA+ string.                     *)
(***************************************************************************)
EXTENDS Integers, Sequences, FiniteSets, TLC

VARIABLES
    environ,            \* os.environ: variable name -> value, unset names absent
    obj,                \* "unconstructed" | "constructed" | "failed"
    failed_on,          \* the variable whose parsing raised, or "none"
    sampling_params,    \* self.sampling_params  (read once obj = "constructed")
    stream,             \* self.stream           (read once obj = "constructed")
    max_infer_iters,    \* self.max_infer_iters  (read once obj = "constructed")
    agent_id,           \* self.agent_id   (NoId: attribute not set yet)
    session_id,         \* self.session_id (NoId: attribute not set yet)
    history_formatted,  \* self.history_formatted
    agents,             \* service: the agents registered, with their agent_config
    sessions,           \* service: the sessions registered, with their agent
    turns,              \* service: the turn-creation requests, in arrival order
    pc,                 \* position of the current make_questions generator
    question,           \* its argument
    response_stream,    \* what turn.create returned to it
    pos,                \* number of records the for loop has taken from it
    partial_response,   \* its local accumulator
    yielded,            \* the fragments it has yielded, in order
    calls,              \* number of make_questions generators created so far
    creates             \* number of create_agent calls so far

vars == <<environ, obj, failed_on, sampling_params, stream, max_infer_iters,
          agent_id, session_id, history_formatted, agents, sessions, turns,
          pc, question, response_stream, pos, partial_response, yielded, calls,
          creates>>

settings == <<sampling_params, stream, max_infer_iters>>
registration == <<agent_id, session_id>>
service == <<agents, sessions, turns>>
generator == <<pc, question, response_stream, pos, partial_response, yielded>>

(***************************************************************************)
(* Bounds                                                                  *)
(***************************************************************************)
MaxCalls == 2       \* make_questions calls in one behaviour
MaxCreates == 2     \* create_agent calls in one behaviour
MaxStreamLen == 2   \* records in one response stream

(***************************************************************************)
(* Parsing of the numeric settings: float(...) and int(...)                *)
(***************************************************************************)
Digits == {"0", "1", "2", "3", "4", "5", "6", "7", "8", "9"}

DigitVal(c) ==
    CASE c = "0" -> 0 [] c = "1" -> 1 [] c = "2" -> 2 [] c = "3" -> 3
      [] c = "4" -> 4 [] c = "5" -> 5 [] c = "6" -> 6 [] c = "7" -> 7
      [] c = "8" -> 8 [] c = "9" -> 9

RECURSIVE DigitsVal(_)
DigitsVal(s) ==
    IF s = <<>> THEN 0
    ELSE 10 * DigitsVal(SubSeq(s, 1, Len(s) - 1)) + DigitVal(s[Len(s)])

RECURSIVE Pow10(_)
Pow10(n) == IF n = 0 THEN 1 ELSE 10 * Pow10(n - 1)

AllDigits(s) == \A i \in 1..Len(s) : s[i] \in Digits

HasSign(s) == Len(s) > 0 /\ s[1] \in {"+", "-"}
Unsigned(s) == IF HasSign(s) THEN Tail(s) ELSE s
Signed(s, n) == IF HasSign(s) /\ s[1] = "-" THEN -n ELSE n

ValueError == [ok |-> FALSE, num |-> 0, den |-> 1]

\* an int(...) that falls back to 0 instead of raising
py_int_lenient(s) ==
    LET u == Unsigned(s) IN
    IF Len(u) > 0 /\ AllDigits(u)
    THEN [ok |-> TRUE, num |-> Signed(s, DigitsVal(u)), den |-> 1]
    ELSE [ok |-> TRUE, num |-> 0, den |-> 1]

\* int(s) of a string: an optional sign and one or more decimal digits
py_int(s) ==
    LET u == Unsigned(s) IN
    IF Len(u) > 0 /\ AllDigits(u)
    THEN [ok |-> TRUE, num |-> Signed(s, DigitsVal(u)), den |-> 1]
    ELSE ValueError

\* float(s) of a string: an optional sign, digits, at most one point, and
\* at least one digit; the value is num / den
py_float(s) ==
    LET u == Unsigned(s)
        dots == {i \in 1..Len(u) : u[i] = "."}
        d == IF dots = {} THEN Len(u) + 1 ELSE CHOOSE i \in dots : TRUE
        whole == SubSeq(u, 1, d - 1)
        frac == SubSeq(u, d + 1, Len(u))
    IN  IF Cardinality(dots) <= 1 /\ AllDigits(whole) /\ AllDigits(frac)
           /\ Len(whole) + Len(frac) > 0
        THEN [ok |-> TRUE, num |-> Signed(s, DigitsVal(whole \o frac)),
              den |-> Pow10(Len(frac))]
        ELSE ValueError

\* the defaults os.getenv falls back to are numbers already
DefaultTemperature == [ok |-> TRUE, num |-> 95, den |-> 100]
DefaultTopP == [ok |-> TRUE, num |-> 95, den |-> 100]
DefaultMaxTokens == [ok |-> TRUE, num |-> 4096, den |-> 1]
DefaultMaxInferIters == [ok |-> TRUE, num |-> 1, den |-> 1]

IsSet(name) == name \in DOMAIN environ

temperature ==
    IF IsSet("TEMPERATURE") THEN py_float(environ["TEMPERATURE"])
    ELSE DefaultTemperature

top_p ==
    IF IsSet("TOP_P") THEN py_float(environ["TOP_P"]) ELSE DefaultTopP

max_tokens ==
    IF IsSet("MAX_TOKENS") THEN py_int(environ["MAX_TOKENS"])
    ELSE DefaultMaxTokens

infer_iters ==
    IF IsSet("MAX_INFER_ITERS") THEN py_int(environ["MAX_INFER_ITERS"])
    ELSE DefaultMaxInferIters

stream_env == IF IsSet("STREAM") THEN environ["STREAM"] ELSE "True"

\* a comparison that ignores the case of the value
stream_flag_caseless(v) == v \notin {"False", "false"}

\* any value not equal to 'False' is considered as 'True'
stream_flag(v) == v # "False"

\* top_p is read only on the sampling branch
uses_top_p == temperature.ok /\ temperature.num > 0

strategy ==
    IF uses_top_p
    THEN [type |-> "top_p", temperature |-> <<temperature.num, temperature.den>>,
          top_p |-> <<top_p.num, top_p.den>>]
    ELSE [type |-> "greedy"]

\* the first statement of __init__ that raises, in statement order
first_failure ==
    IF ~temperature.ok THEN "TEMPERATURE"
    ELSE IF uses_top_p /\ ~top_p.ok THEN "TOP_P"
    ELSE IF ~max_tokens.ok THEN "MAX_TOKENS"
    ELSE IF ~infer_iters.ok THEN "MAX_INFER_ITERS"
    ELSE "none"

\* the attributes hold nothing that is read before __init__ assigns them
NoParams == [strategy |-> [type |-> "unset"], max_tokens |-> 0]
NoId == <<"none", 0>>

(***************************************************************************)
(* The environment the process is started in                               *)
(***************************************************************************)
Names == {"TEMPERATURE", "TOP_P", "MAX_TOKENS", "MAX_INFER_ITERS", "STREAM"}

\* a choice per name: the empty set (unset) or a singleton (its value)
EnvOf(choice) ==
    [n \in {m \in Names : choice[m] # {}} |-> CHOOSE v \in choice[n] : TRUE]

Opt(values) == {{}} \cup {{v} : v \in values}

FloatTexts == {<<"0">>, <<"0", ".", "5">>, <<"-", "1">>, <<"a", "b", "c">>, <<>>}
IntTexts == {<<"8">>, <<"1", "6">>, <<"a", "b", "c">>, <<"4", ".", "5">>}
StreamTexts == {"False", "false", "True", ""}

AllEnvironments ==
    {EnvOf(c) : c \in [TEMPERATURE : Opt(FloatTexts), TOP_P : Opt(FloatTexts),
                       MAX_TOKENS : Opt(IntTexts), MAX_INFER_ITERS : Opt(IntTexts),
                       STREAM : Opt(StreamTexts)]}

RunEnvironments ==
    {EnvOf(c) : c \in [TEMPERATURE : {{}}, TOP_P : {{}},
                       MAX_TOKENS : Opt({<<"a", "b", "c">>}),
                       MAX_INFER_ITERS : {{}}, STREAM : Opt({"False", "false"})]}

Unconstructed ==
    /\ obj = "unconstructed"
    /\ failed_on = "none"
    /\ sampling_params = NoParams
    /\ stream = FALSE
    /\ max_infer_iters = 0
    /\ agent_id = NoId
    /\ session_id = NoId
    /\ history_formatted = <<>>
    /\ agents = {}
    /\ sessions = {}
    /\ turns = <<>>
    /\ pc = "none"
    /\ question = ""
    /\ response_stream = <<>>
    /\ pos = 0
    /\ partial_response = ""
    /\ yielded = <<>>
    /\ calls = 0
    /\ creates = 0

Init == environ \in RunEnvironments /\ Unconstructed

InitAll == environ \in AllEnvironments /\ Unconstructed

(***************************************************************************)
(* AgenticProposalRH.__init__                                              *)
(***************************************************************************)
init ==
    /\ obj = "unconstructed"
    /\ IF first_failure = "none"
       THEN /\ obj' = "constructed"
            /\ sampling_params' = [strategy |-> strategy, max_tokens |-> max_tokens.num]
            /\ stream' = stream_flag(stream_env)
            /\ max_infer_iters' = infer_iters.num
            /\ UNCHANGED failed_on
       ELSE /\ obj' = "failed"
            /\ failed_on' = first_failure
            \* the attributes assigned before the statement that raised
            /\ sampling_params' =
                 IF first_failure = "MAX_INFER_ITERS"
                 THEN [strategy |-> strategy, max_tokens |-> max_tokens.num]
                 ELSE sampling_params
            /\ stream' =
                 IF first_failure = "MAX_INFER_ITERS"
                 THEN stream_flag(stream_env) ELSE stream
            /\ UNCHANGED max_infer_iters
    /\ UNCHANGED <<environ, registration, history_formatted, service, generator, calls,
                   creates>>

(***************************************************************************)
(* The records of a response stream.  A Python value is tagged with what   *)
(* it is: None, a dict (its items) or an object (its attributes).          *)
(***************************************************************************)
None == [py |-> "None"]
Dict(items) == [py |-> "dict", items |-> items]
Object(attrs) == [py |-> "object", attrs |-> attrs]

hasattr(o, name) == o.py = "object" /\ name \in DOMAIN o.attrs

getattr(o, name, default) == IF hasattr(o, name) THEN o.attrs[name] ELSE default

truthy(v) ==
    CASE v.py = "None" -> FALSE
      [] v.py = "dict" -> DOMAIN v.items # {}
      [] v.py = "object" -> TRUE

TurnComplete(text) ==
    Object([payload |-> Object([event_type |-> "turn_complete",
                                turn |-> Object([output_message |->
                                                   Object([content |-> text])])])])

StepProgress == Object([payload |-> Object([event_type |-> "step_progress"])])

ErrorRecord == Object([error |-> Dict([message |-> "boom"])])
ErrorWithEvent == Object([error |-> Dict([code |-> "500"]), event |-> TurnComplete("A")])
CompleteA == Object([event |-> TurnComplete("A")])
CompleteB == Object([error |-> None, event |-> TurnComplete("B")])
Progress == Object([error |-> Dict(<<>>), event |-> StepProgress])

Records == {ErrorRecord, ErrorWithEvent, CompleteA, CompleteB, Progress}

Streams == UNION {[1..n -> Records] : n \in 0..MaxStreamLen}

Questions == {"q1", "q2"}

\* line 133: the record carries an error payload
is_error(response) ==
    hasattr(response, "error") /\ truthy(getattr(response, "error", None))

\* lines 138-139: the record carries a "turn_complete" event
is_turn_complete(response) ==
    /\ hasattr(response, "event")
    /\ truthy(getattr(response, "event", None))
    /\ hasattr(response.attrs.event, "payload")
    /\ response.attrs.event.attrs.payload.attrs.event_type = "turn_complete"

\* line 141: response.event.payload.turn.output_message.content
output_content(response) ==
    response.attrs.event.attrs.payload.attrs.turn.attrs.output_message.attrs.content

\* an assignment in place of the +=
replace(acc, text) == text

\* line 141: partial_response += ...
accumulate(acc, text) == acc \o text

\* an accumulator that outlives the call
stale_partial_response == partial_response

\* line 131
initial_partial_response == ""

\* an insert at the front
history_prepend(history, q) == <<q>> \o history

\* line 115
history_append(history, q) == Append(history, q)

\* a request on a session of its own
turn_request_new_session(q) ==
    [session_id |-> <<"session", Len(turns) + 1>>, agent_id |-> agent_id,
     stream |-> stream, messages |-> <<[role |-> "user", content |-> q]>>]

\* a request that replays the history
turn_request_replaying(q) ==
    [session_id |-> session_id, agent_id |-> agent_id, stream |-> stream,
     messages |-> [i \in 1..Len(history_formatted) |->
                     [role |-> "user", content |-> history_formatted[i]]]]

\* lines 118-128: the turn-creation request
turn_request(q) ==
    [session_id |-> session_id, agent_id |-> agent_id, stream |-> stream,
     messages |-> <<[role |-> "user", content |-> q]>>]

\* line 132: the for loop has no record left to take
exhausted == pos = Len(response_stream)

\* a loop that takes the same record again
stay(p) == p

\* line 132: the for loop takes the next record
advance(p) == p + 1

\* a continue in place of the break
after_error_continue == "sent"

\* line 137: break leaves the loop and the generator returns
after_error == "errored"

(***************************************************************************)
(* AgenticProposalRH.create_agent                                          *)
(***************************************************************************)
\* the generator is not in the middle of a next(): it is not created, not
\* started, suspended at its yield, or finished
Suspended == pc \in {"none", "idle", "yielded", "complete", "errored", "raised"}

\* a registration that reuses the agent it has
reused_agent_id == IF agent_id # NoId THEN agent_id ELSE <<"agent", 1>>

\* the ids the service hands out
new_agent_id == <<"agent", Cardinality(agents) + 1>>

new_session_id == <<"session", Cardinality(sessions) + 1>>

agent_config ==
    [name |-> "Orquestrator Agent", max_infer_iters |-> max_infer_iters,
     sampling_params |-> sampling_params]

\* line 103: the agent the session is created for
session_agent(new_agent) == new_agent

create_agent ==
    /\ obj = "constructed"
    /\ Suspended
    /\ creates < MaxCreates
    /\ agents' = agents \cup {[agent_id |-> new_agent_id, agent_config |-> agent_config]}
    /\ agent_id' = new_agent_id
    /\ sessions' = sessions \cup {[session_id |-> new_session_id,
                                   agent_id |-> session_agent(new_agent_id),
                                   session_name |-> "agent1"]}
    /\ session_id' = new_session_id
    /\ history_formatted' = <<>>
    /\ creates' = creates + 1
    /\ UNCHANGED <<environ, obj, failed_on, settings, turns, generator, calls>>

(***************************************************************************)
(* AgenticProposalRH.make_questions: a generator function.  The call       *)
(* creates the generator; its body runs when the consumer asks for the     *)
(* next fragment.  One generator is consumed at a time.                    *)
(***************************************************************************)
make_questions(q) ==
    /\ obj = "constructed"
    /\ pc \in {"none", "complete", "errored", "raised"}
    /\ calls < MaxCalls
    /\ pc' = "idle"
    /\ question' = q
    /\ response_stream' = <<>>
    /\ pos' = 0
    /\ yielded' = <<>>
    /\ calls' = calls + 1
    /\ UNCHANGED <<environ, obj, failed_on, settings, registration,
                   history_formatted, service, partial_response, creates>>

\* line 112 when create_agent has not run: self.session_id does not exist
attribute_error ==
    /\ pc = "idle"
    /\ session_id = NoId
    /\ pc' = "raised"
    /\ UNCHANGED <<environ, obj, failed_on, settings, registration,
                   history_formatted, service, question, response_stream, pos,
                   partial_response, yielded, calls, creates>>

\* lines 112-115
append_question ==
    /\ pc = "idle"
    /\ session_id # NoId
    /\ history_formatted' = history_append(history_formatted, question)
    /\ pc' = "appended"
    /\ UNCHANGED <<environ, obj, failed_on, settings, registration, service,
                   question, response_stream, pos, partial_response, yielded,
                   calls, creates>>

\* lines 118-131: the service receives the request and answers with a stream
turn_create ==
    /\ pc = "appended"
    /\ turns' = Append(turns, turn_request(question))
    /\ \E rs \in Streams : response_stream' = rs
    /\ pos' = 0
    /\ partial_response' = initial_partial_response
    /\ pc' = "sent"
    /\ UNCHANGED <<environ, obj, failed_on, settings, registration,
                   history_formatted, agents, sessions, question, yielded,
                   calls, creates>>

\* lines 132-137: the next record carries an error: log it and break
on_error ==
    /\ pc = "sent"
    /\ ~exhausted
    /\ is_error(response_stream[pos + 1])
    /\ pos' = advance(pos)
    /\ pc' = after_error
    /\ UNCHANGED <<environ, obj, failed_on, settings, registration,
                   history_formatted, service, question, response_stream,
                   partial_response, yielded, calls, creates>>

\* lines 138-143: the next record completes the turn: accumulate and yield
on_turn_complete ==
    /\ pc = "sent"
    /\ ~exhausted
    /\ ~is_error(response_stream[pos + 1])
    /\ is_turn_complete(response_stream[pos + 1])
    /\ pos' = advance(pos)
    /\ partial_response' =
         accumulate(partial_response, output_content(response_stream[pos + 1]))
    /\ yielded' = Append(yielded, partial_response')
    /\ pc' = "yielded"
    /\ UNCHANGED <<environ, obj, failed_on, settings, registration,
                   history_formatted, service, question, response_stream,
                   calls, creates>>

\* the consumer asks for the next fragment: the loop goes on after the yield
resume ==
    /\ pc = "yielded"
    /\ pc' = "sent"
    /\ UNCHANGED <<environ, obj, failed_on, settings, registration,
                   history_formatted, service, question, response_stream, pos,
                   partial_response, yielded, calls, creates>>

\* lines 132-139: the next record is neither: the loop takes the next one
on_other ==
    /\ pc = "sent"
    /\ ~exhausted
    /\ ~is_error(response_stream[pos + 1])
    /\ ~is_turn_complete(response_stream[pos + 1])
    /\ pos' = advance(pos)
    /\ UNCHANGED <<environ, obj, failed_on, settings, registration,
                   history_formatted, service, pc, question, response_stream,
                   partial_response, yielded, calls, creates>>

\* line 132: the stream is exhausted: the generator returns
on_exhausted ==
    /\ pc = "sent"
    /\ exhausted
    /\ pc' = "complete"
    /\ UNCHANGED <<environ, obj, failed_on, settings, registration,
                   history_formatted, service, question, response_stream, pos,
                   partial_response, yielded, calls, creates>>

\* the statements of the generator body
body ==
    \/ attribute_error
    \/ append_question
    \/ turn_create
    \/ on_error
    \/ on_turn_complete
    \/ resume
    \/ on_other
    \/ on_exhausted

Next ==
    \/ init
    \/ create_agent
    \/ \E q \in Questions : make_questions(q)
    \/ body

Spec == Init /\ [][Next]_vars

\* the consumer keeps asking for fragments and the transport keeps delivering
LiveSpec == Spec /\ WF_vars(body)

NextInit == init

SpecInit == InitAll /\ [][NextInit]_vars

(***************************************************************************)
(* Vocabulary of the properties, stated on the records themselves          *)
(***************************************************************************)
Last(s) == s[Len(s)]

IsPrefix(s, t) == Len(s) <= Len(t) /\ SubSeq(t, 1, Len(s)) = s

\* the records that carry an error payload
CarriesError(r) == r \in {ErrorRecord, ErrorWithEvent}

\* the turn-complete records that carry no error payload, and their texts
CompletesTurn(r) == r \in {CompleteA, CompleteB}
TextOf(r) == IF r = CompleteA THEN "A" ELSE "B"

ErrorIndexes(s) == {i \in 1..Len(s) : CarriesError(s[i])}
FirstError(s) == CHOOSE i \in ErrorIndexes(s) : \A j \in ErrorIndexes(s) : i <= j

\* the records the loop reaches: up to and without the first error record
Reached(s) ==
    IF ErrorIndexes(s) = {} THEN s ELSE SubSeq(s, 1, FirstError(s) - 1)

RECURSIVE Concat(_)
Concat(texts) == IF texts = <<>> THEN "" ELSE Head(texts) \o Concat(Tail(texts))

Texts(s) == LET c == SelectSeq(s, CompletesTurn) IN [i \in 1..Len(c) |-> TextOf(c[i])]

\* the k-th fragment is the concatenation of the first k output texts
Fragments(s) == [k \in 1..Len(Texts(s)) |-> Concat(SubSeq(Texts(s), 1, k))]

Started == pc \in {"sent", "yielded", "complete", "errored"}
Finished == pc \in {"complete", "errored", "raised"}

CarriesPair(t) == t.agent_id = agent_id /\ t.session_id = session_id

UserMessage(q) == [role |-> "user", content |-> q]

(***************************************************************************)
(* C1: after one create_agent call every turn-creation request carries the *)
(* (agent_id, session_id) pair create_agent stored, whatever the response  *)
(* streams held, and no step of make_questions changes the pair.           *)
(***************************************************************************)
C1_SinglePair ==
    /\ [](creates = 1 => \A i \in 1..Len(turns) : CarriesPair(turns[i]))
    /\ [][(body \/ \E q \in Questions : make_questions(q))
            => UNCHANGED registration]_vars

C1_Witness ==
    /\ creates = 1
    /\ Len(turns) >= 2
    /\ pc = "errored"
    /\ \A i \in 1..Len(turns) : CarriesPair(turns[i])

(***************************************************************************)
(* C2: a call whose stream holds no error record yields one fragment per   *)
(* turn-complete record, the k-th being the concatenation of the first k   *)
(* output texts in stream order: [complete(A)] yields [A] and              *)
(* [complete(A), complete(B)] yields [A, AB].                              *)
(***************************************************************************)
C2_Accumulation ==
    (pc = "complete" /\ ErrorIndexes(response_stream) = {}) =>
        /\ yielded = Fragments(response_stream)
        /\ Len(yielded) = Cardinality({i \in 1..Len(response_stream) :
                                         CompletesTurn(response_stream[i])})
        /\ response_stream = <<CompleteA>> => yielded = <<"A">>
        /\ response_stream = <<CompleteA, CompleteB>> => yielded = <<"A", "AB">>

C2_Witness ==
    /\ pc = "complete"
    /\ response_stream = <<CompleteA, CompleteB>>
    /\ yielded = <<"A", "AB">>

(***************************************************************************)
(* C3: at a record with an error payload the sequence ends normally, with  *)
(* no fragment for that record or a later one and no later record taken:   *)
(* [error, complete(A)] yields nothing.                                    *)
(***************************************************************************)
C3_StopsAtError ==
    ErrorIndexes(response_stream) # {} =>
        /\ pos <= FirstError(response_stream)
        /\ pos = FirstError(response_stream) => pc = "errored"
        /\ Len(yielded) <= Len(Texts(Reached(response_stream)))
        /\ pc = "errored" => yielded = Fragments(Reached(response_stream))
        /\ pc # "raised"
        /\ (response_stream = <<ErrorRecord, CompleteA>>) => yielded = <<>>

C3_Witness ==
    /\ pc = "errored"
    /\ response_stream = <<ErrorRecord, CompleteA>>
    /\ pos = 1
    /\ yielded = <<>>

(***************************************************************************)
(* C4 as stated: a non-numeric value of any of TEMPERATURE, TOP_P,         *)
(* MAX_TOKENS, MAX_INFER_ITERS, whatever the other settings are, makes the *)
(* construction fail, with no service call attempted.                      *)
(***************************************************************************)
NonNumeric == {<<"a", "b", "c">>, <<>>}

IsNonNumeric(name) == IsSet(name) /\ environ[name] \in NonNumeric

NoServiceCall == agents = {} /\ sessions = {} /\ turns = <<>>

C4_AsStated ==
    \A name \in {"TEMPERATURE", "TOP_P", "MAX_TOKENS", "MAX_INFER_ITERS"} :
        (obj # "unconstructed" /\ IsNonNumeric(name)) =>
            (obj = "failed" /\ NoServiceCall)

(***************************************************************************)
(* C4 amended: a non-numeric TEMPERATURE, MAX_TOKENS or MAX_INFER_ITERS    *)
(* makes the construction fail whatever the other settings are, and a      *)
(* non-numeric TOP_P does unless TEMPERATURE is a number that is not above *)
(* zero (TOP_P is then not read); no service call has been attempted when  *)
(* the construction fails.                                                 *)
(***************************************************************************)
TemperatureNotAboveZero ==
    IsSet("TEMPERATURE") /\ environ["TEMPERATURE"] \in {<<"0">>, <<"-", "1">>}

C4_FailsAtStartup ==
    obj # "unconstructed" =>
        /\ \A name \in {"TEMPERATURE", "MAX_TOKENS", "MAX_INFER_ITERS"} :
               IsNonNumeric(name) => obj = "failed"
        /\ (IsNonNumeric("TOP_P") /\ ~TemperatureNotAboveZero) => obj = "failed"
        /\ obj = "failed" =>
               /\ NoServiceCall
               /\ failed_on \in {"TEMPERATURE", "TOP_P", "MAX_TOKENS", "MAX_INFER_ITERS"}
               /\ failed_on = "TOP_P" => ~TemperatureNotAboveZero

C4_Witness ==
    /\ obj = "failed"
    /\ failed_on = "TOP_P"
    /\ IsNonNumeric("TOP_P")
    /\ ~IsNonNumeric("TEMPERATURE")
    /\ NoServiceCall

(***************************************************************************)
(* C5: the stream flag is false exactly when STREAM is the string "False"  *)
(* (true for every other value and when unset), it does not change after   *)
(* the construction, and every turn-creation request carries it.           *)
(***************************************************************************)
StreamIsFalse == IsSet("STREAM") /\ environ["STREAM"] = "False"

C5_StreamFlag ==
    /\ [](obj = "constructed" =>
            /\ stream = ~StreamIsFalse
            /\ \A i \in 1..Len(turns) : turns[i].stream = ~StreamIsFalse)
    /\ [][obj = "constructed" => stream' = stream]_vars

C5_Witness ==
    /\ obj = "constructed"
    /\ StreamIsFalse
    /\ Len(turns) >= 2
    /\ \A i \in 1..Len(turns) : turns[i].stream = FALSE

(***************************************************************************)
(* C6 as stated: the history is the questions of all calls in call order,  *)
(* whatever operations of the class ran; the turn requests the service     *)
(* received are the record of the calls.                                   *)
(***************************************************************************)
Asked(ts) == [i \in 1..Len(ts) |-> ts[i].messages[1].content]

Pending == IF pc = "appended" THEN <<question>> ELSE <<>>

C6_AsStated == history_formatted = Asked(turns) \o Pending

(***************************************************************************)
(* C6 amended: create_agent empties the history; between two create_agent  *)
(* calls the history is append-only: each make_questions call appends its  *)
(* own raw question at the end, before its turn request is sent and        *)
(* whatever the turn does later, and nothing is removed or reordered, so   *)
(* the history is the questions of the calls made since the latest         *)
(* create_agent, in call order.                                            *)
(***************************************************************************)
InSession(t) == t.session_id = session_id

C6_AppendOnlyPerSession ==
    /\ [](history_formatted = Asked(SelectSeq(turns, InSession)) \o Pending)
    /\ [][IF creates' # creates THEN history_formatted' = <<>>
          ELSE IF pc = "idle" /\ pc' = "appended"
               THEN /\ history_formatted' = Append(history_formatted, question)
                    /\ turns' = turns
               ELSE history_formatted' = history_formatted]_vars

C6_Witness ==
    /\ creates = 2
    /\ Len(turns) = 2
    /\ pc = "errored"
    /\ ~InSession(turns[1])
    /\ history_formatted = <<question>>

(***************************************************************************)
(* C7: a call goes Idle -> Sent -> Complete or Errored: it issues one      *)
(* turn-creation request, before it takes any record, with one user        *)
(* message holding its own question, and no second request whatever the    *)
(* stream holds.                                                           *)
(***************************************************************************)
CallSteps ==
    {<<"idle", "appended">>, <<"appended", "sent">>, <<"sent", "yielded">>,
     <<"yielded", "sent">>, <<"sent", "complete">>, <<"sent", "errored">>,
     <<"idle", "raised">>}

C7_OneRequestPerCall ==
    /\ [](Started => /\ turns # <<>>
                     /\ Last(turns).messages = <<UserMessage(question)>>)
    /\ [](pos > 0 => Started)
    /\ [][calls' = calls =>
            /\ pc' # pc => <<pc, pc'>> \in CallSteps
            /\ IF <<pc, pc'>> = <<"appended", "sent">>
               THEN /\ Len(turns') = Len(turns) + 1
                    /\ SubSeq(turns', 1, Len(turns)) = turns
                    /\ Last(turns').messages = <<UserMessage(question)>>
                    /\ pos' = 0
               ELSE turns' = turns]_vars
    /\ [][calls' # calls => (pc \notin {"idle", "appended", "sent", "yielded"}
                             /\ pc' = "idle" /\ turns' = turns)]_vars

C7_Witness ==
    /\ pc = "errored"
    /\ calls = 2
    /\ Len(turns) = 2
    /\ Len(history_formatted) = 2
    /\ Last(turns).messages = <<UserMessage(question)>>
    /\ turns[1].messages # turns[2].messages

(***************************************************************************)
(* C8: with a consumer that keeps asking for fragments a call finishes,    *)
(* at the end of its stream or at the first error record, whichever comes  *)
(* first, and yields at most as many fragments as the stream has records.  *)
(***************************************************************************)
C8_Terminates ==
    /\ (pc = "idle") ~> Finished
    /\ [](Len(yielded) <= Len(response_stream))
    /\ [](pc = "complete" => /\ pos = Len(response_stream)
                             /\ ErrorIndexes(response_stream) = {})
    /\ [](pc = "errored" => pos = FirstError(response_stream))

C8_Witness ==
    /\ pc = "complete"
    /\ Len(response_stream) = 2
    /\ pos = 2
    /\ Len(yielded) = 1

(***************************************************************************)
(* C9: create_agent is not idempotent: each call registers one new agent   *)
(* and one new session bound to that agent, stores the new pair and leaves *)
(* the agents and sessions registered before in place; after n calls the   *)
(* service holds n agents and n sessions and a turn uses the latest pair.  *)
(***************************************************************************)
AgentIds == {a.agent_id : a \in agents}
SessionIds == {x.session_id : x \in sessions}

C9_CreateAgentRegistersAnew ==
    /\ [](/\ Cardinality(AgentIds) = creates
          /\ Cardinality(SessionIds) = creates
          /\ Cardinality(agents) = creates
          /\ Cardinality(sessions) = creates)
    /\ [][IF creates' # creates
          THEN /\ agents \subseteq agents'
               /\ sessions \subseteq sessions'
               /\ agent_id' \in AgentIds' \ AgentIds
               /\ session_id' \in SessionIds' \ SessionIds
               /\ \E x \in sessions' : /\ x.session_id = session_id'
                                       /\ x.agent_id = agent_id'
          ELSE /\ agents' = agents
               /\ sessions' = sessions
               /\ turns' # turns => CarriesPair(Last(turns'))]_vars

C9_Witness ==
    /\ creates = 2
    /\ Cardinality(AgentIds) = 2
    /\ Cardinality(SessionIds) = 2
    /\ Len(turns) = 2
    /\ turns[1].session_id # turns[2].session_id
    /\ CarriesPair(turns[2])

(***************************************************************************)
(* C10: the accumulator belongs to one call: what a call yields is fixed   *)
(* by its own stream, its first fragment is the text of its first          *)
(* turn-complete record whatever earlier calls yielded, and a record that  *)
(* is neither an error nor a turn-complete one yields nothing and leaves   *)
(* the accumulator as it is.                                               *)
(***************************************************************************)
Taken == SubSeq(response_stream, 1, pos)

C10_PrivateAccumulator ==
    /\ [](Started =>
            /\ yielded = Fragments(Reached(Taken))
            /\ partial_response = Concat(Texts(Reached(Taken)))
            /\ yielded # <<>> => yielded[1] = Texts(response_stream)[1])
    /\ [][(pc = "sent" /\ pos' = pos + 1 /\ response_stream[pos'] = Progress)
            => (yielded' = yielded /\ partial_response' = partial_response)]_vars

C10_Witness ==
    /\ calls = 2
    /\ Len(turns) = 2
    /\ pc = "complete"
    /\ response_stream = <<Progress, CompleteB>>
    /\ yielded = <<"B">>
====
